---- MODULE Spec2Model ----
(***************************************************************************)
(* A model of room.py: the Entity schema reflection and validation, the   *)
(* statement generators, and the query / insert bindings of a Dao over    *)
(* one sqlite3 connection.                                                 *)
(*                                                                         *)
(* Python values are records [t, n, s]: t is the exact runtime type, n    *)
(* the numeric payload (0 when the type has none) and s the text payload, *)
(* a sequence of tokens (<<>> when the type has none).  SQL text is a     *)
(* sequence of tokens as well.                                             *)
(***************************************************************************)
EXTENDS Integers, Sequences, FiniteSets, TLC

VARIABLES obj, last, tables, rows, committed, inTxn, inserted

vars == <<obj, last, tables, rows, committed, inTxn, inserted>>

----------------------------------------------------------------------------
(* Bounds *)

\* ints 1..MaxInt stand for the ints the engine can bind (64-bit signed);
\* WideInt stands for a Python int outside that range.
MaxInt == 1
\* longest positional argument list of a constructor call
MaxArgs == 2
\* most named arguments of a constructor call
MaxKw == 1
\* most instances handed to one insert call
MaxBatch == 2
\* most rows the store holds
MaxRows == 2

WideInt == MaxInt + 1

----------------------------------------------------------------------------
(* Python values *)

IntVal(k) == [t |-> "int", n |-> k, s |-> <<>>]
FloatVal(k) == [t |-> "float", n |-> k, s |-> <<>>]
StrVal(text) == [t |-> "str", n |-> 0, s |-> text]
BytesVal(text) == [t |-> "bytes", n |-> 0, s |-> text]
BoolVal(b) == [t |-> "bool", n |-> IF b THEN 1 ELSE 0, s |-> <<>>]
DateVal(k) == [t |-> "date", n |-> k, s |-> <<>>]
DateTimeVal(k) == [t |-> "datetime", n |-> k, s |-> <<>>]

Apple == <<"A", "p", "p", "l", "e">>
QMark == <<"?">>

\* the values constructor calls are made with
CtorValues ==
  {IntVal(1), FloatVal(52), StrVal(QMark), BoolVal(TRUE), DateTimeVal(1)}

\* the values of each type that stored instances are built from
ValuesOfType(t) ==
  CASE t = "int" -> {IntVal(k) : k \in 1..WideInt}
    [] t = "float" -> {FloatVal(52)}
    [] t = "str" -> {StrVal(Apple)}
    [] t = "bytes" -> {BytesVal(QMark)}
    [] t = "bool" -> {BoolVal(TRUE)}
    [] t = "date" -> {DateVal(1)}
    [] t = "datetime" -> {DateTimeVal(1)}

----------------------------------------------------------------------------
(* Entity classes: the class body's attributes in declaration order.  kind *)
(* is "type" for a bare property type, "pk" for PrimaryKey(t), "other" for *)
(* anything else (a method, a constant).                                   *)

Attr(name, kind, t) == [name |-> name, kind |-> kind, t |-> t]

\* PrimaryKey.__init__: only int, str and bytes are accepted
PrimaryKeyTypes == {"int", "str", "bytes"}

\* Entity.property_types
property_types == {"int", "float", "str", "bytes", "bool", "date", "datetime"}

\* class Food(Entity) of room.py
FoodDecl ==
  <<Attr("uid", "pk", "int"), Attr("name", "type", "str"),
    Attr("calories", "type", "float"), Attr("last_log", "type", "datetime"),
    Attr("importance", "type", "float")>>

\* further entity classes a client of Entity can declare
SnackDecl ==
  <<Attr("uid", "pk", "int"), Attr("name", "type", "str"),
    Attr("calories", "type", "float")>>

LogDecl ==
  <<Attr("key", "pk", "str"), Attr("done", "type", "bool"),
    Attr("_seq", "type", "int"), Attr("describe", "other", "int")>>

NoKeyDecl ==
  <<Attr("name", "type", "str"), Attr("calories", "type", "float")>>

TwoKeysDecl ==
  <<Attr("uid", "pk", "int"), Attr("key", "pk", "str")>>

Classes == {"Food", "Snack", "Log", "NoKey", "TwoKeys"}

Decl(cls) ==
  CASE cls = "Food" -> FoodDecl
    [] cls = "Snack" -> SnackDecl
    [] cls = "Log" -> LogDecl
    [] cls = "NoKey" -> NoKeyDecl
    [] cls = "TwoKeys" -> TwoKeysDecl

\* dir(cls) lists attribute names sorted; this is the sorted order of every
\* name the classes above declare ('_' sorts before the lower-case letters)
DirOrder ==
  <<"_seq", "calories", "describe", "done", "importance", "key", "last_log",
    "name", "uid">>

\* prop.startswith('_')
PrivateNames == {"_seq"}

SeqRange(sq) == {sq[i] : i \in 1..Len(sq)}

AttrNames(cls) == {a.name : a \in SeqRange(Decl(cls))}

\* inspect.getattr_static(cls, prop)
getattr_static(cls, prop) == CHOOSE a \in SeqRange(Decl(cls)) : a.name = prop

IsCol(a) ==
  \/ a.kind = "type" /\ a.t \in property_types
  \/ a.kind = "pk"

cols_name_keeps(cls, prop) ==
  /\ prop \in AttrNames(cls)
  /\ prop \notin PrivateNames
  /\ IsCol(getattr_static(cls, prop))

RECURSIVE MapAttrs(_, _)
MapAttrs(cls, names) ==
  IF names = <<>> THEN <<>>
  ELSE <<getattr_static(cls, Head(names))>> \o MapAttrs(cls, Tail(names))

\* Entity.__cols__: the (name, type) pairs in dir() order
cols_scan(cls) ==
  MapAttrs(cls, SelectSeq(DirOrder, LAMBDA prop : cols_name_keeps(cls, prop)))

\* a class body never changes, so neither does what __cols__ returns for it
ColsOfClass == [cls \in Classes |-> cols_scan(cls)]

cols(cls) == ColsOfClass[cls]

\* the column attributes in the order the class body declares them
DeclaredCols(cls) ==
  SelectSeq(Decl(cls), LAMBDA a : a.name \notin PrivateNames /\ IsCol(a))

ColNames(cs) == [i \in 1..Len(cs) |-> cs[i].name]

----------------------------------------------------------------------------
(* Entity.primary_key *)

RECURSIVE primary_key_scan(_, _, _)
primary_key_scan(cs, i, pk) ==
  IF i > Len(cs)
    THEN IF pk # "" THEN [err |-> "none", pk |-> pk]
         ELSE [err |-> "NoPrimaryKey", pk |-> ""]
  ELSE IF cs[i].kind = "pk"
    THEN IF pk # "" THEN [err |-> "MultiplePrimaryKeys", pk |-> ""]
         ELSE primary_key_scan(cs, i + 1, cs[i].name)
  ELSE primary_key_scan(cs, i + 1, pk)

\* a scan that keeps the first primary key and never looks for a second
primary_key_first(cls) ==
  LET cs == cols(cls)
      marked == {i \in 1..Len(cs) : cs[i].kind = "pk"}
  IN IF marked = {} THEN [err |-> "NoPrimaryKey", pk |-> ""]
     ELSE [err |-> "none",
           pk |-> cs[CHOOSE i \in marked : \A j \in marked : i <= j].name]

primary_key(cls) == primary_key_scan(cols(cls), 1, "")

----------------------------------------------------------------------------
(* Entity.__init__ *)

\* named arguments are a dict: a set of <<name, value>> pairs, names unique
KwHas(kwargs, col) == \E p \in kwargs : p[1] = col
KwGet(kwargs, col) == (CHOOSE p \in kwargs : p[1] = col)[2]

\* an isinstance test in place of the exact one: a bool passes for an int
TypeMatches_isinstance(v, a) ==
  \/ v.t = a.t
  \/ v.t = "bool" /\ a.t = "int"

\* type(v) is col_type, or col_type is a key annotation and type(v) is
\* col_type.get_type()
TypeMatches(v, a) ==
  \/ a.kind = "type" /\ v.t = a.t
  \/ a.kind = "pk" /\ v.t = a.t

RECURSIVE init_loop(_, _, _, _, _, _)
init_loop(cs, i, args, kwargs, arg_index, pv) ==
  IF i > Len(cs) THEN [err |-> "none", col |-> "", pv |-> pv, used |-> arg_index]
  ELSE LET col == cs[i].name IN
    IF KwHas(kwargs, col) /\ TypeMatches(KwGet(kwargs, col), cs[i])
      THEN init_loop(cs, i + 1, args, kwargs, arg_index,
                     Append(pv, [name |-> col, val |-> KwGet(kwargs, col)]))
    ELSE IF Len(args) > arg_index /\ TypeMatches(args[arg_index + 1], cs[i])
      THEN init_loop(cs, i + 1, args, kwargs, arg_index + 1,
                     Append(pv, [name |-> col, val |-> args[arg_index + 1]]))
    ELSE [err |-> "MissingOrMistypedField", col |-> col, pv |-> <<>>,
          used |-> arg_index]

Entity_init(cls, args, kwargs) ==
  LET k == primary_key(cls) IN
    IF k.err # "none" THEN [err |-> k.err, col |-> "", pv |-> <<>>, used |-> 0]
    ELSE init_loop(cols(cls), 1, args, kwargs, 0, <<>>)

\* an instance: its class and _property_values, a dict in insertion order
Instance(cls, pv) == [cls |-> cls, pv |-> pv]

NoObj == [cls |-> "", pv |-> <<>>]

\* self._property_values[prop]
PropertyValue(o, prop) ==
  o.pv[CHOOSE i \in 1..Len(o.pv) : o.pv[i].name = prop].val

\* the values in the reverse of the dict's order
values_reversed(o) == [i \in 1..Len(o.pv) |-> o.pv[Len(o.pv) + 1 - i].val]

\* Entity.values: the dict's values in the dict's own (insertion) order
values(o) == [i \in 1..Len(o.pv) |-> o.pv[i].val]

----------------------------------------------------------------------------
(* Text *)

RECURSIVE Join(_, _)
\* sep.join(parts), parts a sequence of token sequences
Join(parts, sep) ==
  IF parts = <<>> THEN <<>>
  ELSE IF Len(parts) = 1 THEN parts[1]
  ELSE parts[1] \o sep \o Join(Tail(parts), sep)

\* date.isoformat() / datetime.isoformat(" ")
IsoFormat(v) ==
  IF v.t = "date" THEN <<"2026-11-0", ToString(v.n)>>
  ELSE <<"2026-11-0", ToString(v.n), " ", "12:00:00">>

\* str(v), what str.format substitutes for a value
PyStr(v) ==
  CASE v.t = "int" -> <<ToString(v.n)>>
    [] v.t = "float" -> <<ToString(v.n), ".", "0">>
    [] v.t = "str" -> v.s
    [] v.t = "bytes" -> <<"b", "'">> \o v.s \o <<"'">>
    [] v.t = "bool" -> IF v.n = 1 THEN <<"True">> ELSE <<"False">>
    [] OTHER -> IsoFormat(v)

RECURSIVE CountParams(_, _)
\* the '?' parameters the engine finds in a statement: every '?' token
\* outside a quoted string
CountParams(sql, quoted) ==
  IF sql = <<>> THEN 0
  ELSE IF Head(sql) = "'" THEN CountParams(Tail(sql), ~quoted)
  ELSE (IF Head(sql) = "?" /\ ~quoted THEN 1 ELSE 0) + CountParams(Tail(sql), quoted)

ParamCount(sql) == CountParams(sql, FALSE)

----------------------------------------------------------------------------
(* Statement generators *)

\* PrimaryKey.sql_type
PrimaryKey_sql_type(t) ==
  CASE t = "int" -> "INT"
    [] t = "str" -> "TEXT"
    [] t = "bytes" -> "BLOB"

\* Entity.__type_to_sql_type__
type_to_sql_type(a) ==
  IF a.kind = "pk" THEN PrimaryKey_sql_type(a.t)
  ELSE CASE a.t = "int" -> "INT"
         [] a.t = "float" -> "REAL"
         [] a.t = "str" -> "TEXT"
         [] a.t = "bytes" -> "BLOB"
         [] OTHER -> a.t

\* the column definitions of Entity.__create_table_sql__, in order
create_table_columns(cls) ==
  LET cs == cols(cls) IN
    [i \in 1..Len(cs) |-> <<cs[i].name, type_to_sql_type(cs[i])>>]

\* Entity.__create_table_sql__ (the table name is quoted with backticks)
create_table_sql(cls) ==
  LET cds == create_table_columns(cls) IN
    <<"CREATE TABLE IF NOT EXISTS", cls, "(">>
      \o Join([i \in 1..Len(cds) |-> <<cds[i][1], cds[i][2]>>], <<",">>)
      \o <<")">>

\* Entity.__insert_sql__
insert_sql(cls) ==
  <<"INSERT INTO", cls, "VALUES", "(">>
    \o Join([i \in 1..Len(cols(cls)) |-> <<"?">>], <<",">>)
    \o <<")">>

\* the SET clause of Entity.update_sql
update_set_clause(o) ==
  LET cs == cols(o.cls) IN
    Join([i \in 1..Len(cs) |-> <<cs[i].name, "=", "?">>], <<",">>)

\* the WHERE clause of Entity.update_sql, after the WHERE keyword
update_where_clause(o) ==
  LET pk == primary_key(o.cls).pk IN
    <<pk, "=">> \o PyStr(PropertyValue(o, pk))

\* Entity.update_sql
update_sql(o) ==
  <<"UPDATE", o.cls, "SET">> \o update_set_clause(o)
    \o <<"WHERE">> \o update_where_clause(o)

----------------------------------------------------------------------------
(* The sqlite3 connection.  A stored cell is [sc, n, s]: its storage class *)
(* and payload.                                                            *)

Cell(sc, n, text) == [sc |-> sc, n |-> n, s |-> text]

\* what sqlite3 binds for a Python value: int, float, str and bytes natively,
\* bool through the adapter Database.__init__ registers, date and datetime
\* through the module's default adapters
Adapt(v) ==
  CASE v.t = "int" -> Cell("INTEGER", v.n, <<>>)
    [] v.t = "float" -> Cell("REAL", v.n, <<>>)
    [] v.t = "str" -> Cell("TEXT", 0, v.s)
    [] v.t = "bytes" -> Cell("BLOB", 0, v.s)
    [] v.t = "bool" -> Cell("INTEGER", IF v.n # 0 THEN 1 ELSE 0, <<>>)
    [] OTHER -> Cell("TEXT", 0, IsoFormat(v))

\* binding fails (OverflowError) for an int outside the engine's range
Bindable(v) == v.t = "int" => v.n <= MaxInt

\* the column affinity of a declared type
Affinity(decltype) ==
  CASE decltype = "INT" -> "INTEGER"
    [] decltype = "TEXT" -> "TEXT"
    [] decltype = "BLOB" -> "BLOB"
    [] decltype = "REAL" -> "REAL"
    [] OTHER -> "NUMERIC"

DigitTexts == {<<ToString(k)>> : k \in 0..WideInt}

TextToInt(text) == CHOOSE k \in 0..WideInt : <<ToString(k)>> = text

\* the conversion a column's affinity applies to a cell when it is stored
ApplyAffinity(c, aff) ==
  CASE aff = "TEXT" /\ c.sc \in {"INTEGER", "REAL"} ->
         Cell("TEXT", 0, <<ToString(c.n)>>)
    [] aff \in {"INTEGER", "NUMERIC"} /\ c.sc = "TEXT" /\ c.s \in DigitTexts ->
         Cell("INTEGER", TextToInt(c.s), <<>>)
    [] aff \in {"INTEGER", "NUMERIC"} /\ c.sc = "REAL" -> Cell("INTEGER", c.n, <<>>)
    [] aff = "REAL" /\ c.sc = "INTEGER" -> Cell("REAL", c.n, <<>>)
    [] OTHER -> c

\* the row INSERT stores for a parameter tuple
StoreRow(cls, params) ==
  LET cds == create_table_columns(cls) IN
    [i \in 1..Len(params) |-> ApplyAffinity(Adapt(params[i]), Affinity(cds[i][2]))]

\* what a cursor returns for a cell: the connection is opened without
\* detect_types, so no converter runs
ReadCell(c) ==
  CASE c.sc = "INTEGER" -> IntVal(c.n)
    [] c.sc = "REAL" -> FloatVal(c.n)
    [] c.sc = "TEXT" -> StrVal(c.s)
    [] OTHER -> BytesVal(c.s)

ReadRow(r) == [i \in 1..Len(r) |-> ReadCell(r[i])]

\* Python's == on two values
PyEq(a, b) ==
  IF a.t \in {"int", "float", "bool"} /\ b.t \in {"int", "float", "bool"}
    THEN a.n = b.n
  ELSE a = b

\* Python's == on two tuples
TupleEq(x, y) == Len(x) = Len(y) /\ \A i \in 1..Len(x) : PyEq(x[i], y[i])

\* the connection's state as one record; trace lists what the running call
\* has done so far
Conn ==
  [tables |-> tables, rows |-> rows, committed |-> committed, inTxn |-> inTxn,
   trace |-> <<>>, err |-> "none"]

Step(c, event) == [c EXCEPT !.trace = Append(@, event)]

\* a CREATE that replaces the table, as after DROP TABLE IF EXISTS
conn_execute_create_replace(c, cls) ==
  Step([c EXCEPT !.tables = @ \cup {cls}, !.rows[cls] = <<>>], "create")

\* cursor.execute(CREATE TABLE IF NOT EXISTS ...)
conn_execute_create(c, cls) ==
  Step([c EXCEPT !.tables = @ \cup {cls}], "create")

\* conn.commit()
conn_commit(c) ==
  Step([c EXCEPT !.committed = c.rows, !.inTxn = FALSE], "commit")

\* a create_table that leaves the commit out
create_table_nocommit(c, cls) == conn_execute_create(c, cls)

\* Entity.create_table
create_table(c, cls) == conn_commit(conn_execute_create(c, cls))

RECURSIVE executemany_loop(_, _, _, _, _)
\* one INSERT per parameter tuple; the first tuple that cannot be bound
\* raises and leaves the rows before it in the open transaction
executemany_loop(c, cls, sql, params, i) ==
  IF i > Len(params) THEN c
  ELSE IF Len(params[i]) # ParamCount(sql)
    THEN [c EXCEPT !.err = "ProgrammingError"]
  ELSE IF \E j \in 1..Len(params[i]) : ~Bindable(params[i][j])
    THEN [c EXCEPT !.err = "OverflowError"]
  ELSE executemany_loop(
         [c EXCEPT !.rows[cls] = Append(@, StoreRow(cls, params[i]))],
         cls, sql, params, i + 1)

\* cursor.executemany(sql, params): a transaction is opened before the
\* first INSERT
conn_executemany(c, cls, sql, params) ==
  executemany_loop(Step([c EXCEPT !.inTxn = TRUE], "execute"), cls, sql, params, 1)

\* the body of the wrapper Entity.insert returns
insert_wrapper(c, cls, objects) ==
  LET c1 == create_table(c, cls)
      c2 == Step(c1, "build")
      c3 == conn_executemany(c2, cls, insert_sql(cls),
                             [i \in 1..Len(objects) |-> values(objects[i])])
  IN IF c3.err # "none" THEN Step(c3, "raise")
     ELSE Step(conn_commit(c3), "return")

\* the body of the wrapper Entity.query returns, for the template
\* "SELECT * FROM {table}"
query_wrapper(c, cls) ==
  LET c1 == create_table(c, cls)
      c2 == Step(c1, "build")
      c3 == Step(c2, "execute")
  IN Step(c3, "return")

\* cursor.fetchall() after SELECT * FROM the table: the connection sees its
\* own uncommitted rows
fetchall(c, cls) == [i \in 1..Len(c.rows[cls]) |-> ReadRow(c.rows[cls][i])]

----------------------------------------------------------------------------
(* Inputs *)

RECURSIVE SeqsUpTo(_, _)
\* the sequences over S of length at most k
SeqsUpTo(S, k) ==
  IF k = 0 THEN {<<>>}
  ELSE LET shorter == SeqsUpTo(S, k - 1) IN
    shorter \cup {Append(sq, x) : sq \in {t \in shorter : Len(t) = k - 1}, x \in S}

\* a name no class declares, for a surplus named argument
SurplusName == "extra"

KwNames(cls) == {a.name : a \in SeqRange(cols(cls))} \cup {SurplusName}

RECURSIVE DictsUpTo(_, _)
\* the dicts with at most k entries, keys from names, values from CtorValues
DictsUpTo(names, k) ==
  IF k = 0 THEN {{}}
  ELSE LET smaller == DictsUpTo(names, k - 1) IN
    smaller \cup
      UNION {{d \cup {<<name, v>>} :
                name \in names \ {p[1] : p \in d}, v \in CtorValues} : d \in smaller}

\* the named arguments of a constructor call: at most MaxKw of them, over the
\* class's column names and the surplus name
KwDicts(cls) == DictsUpTo(KwNames(cls), MaxKw)

RECURSIVE FullKwargs(_, _)
\* the dicts giving each of the columns cs[i..] a value of its type
FullKwargs(cs, i) ==
  IF i > Len(cs) THEN {{}}
  ELSE {d \cup {<<cs[i].name, v>>} : d \in FullKwargs(cs, i + 1), v \in ValuesOfType(cs[i].t)}

\* the instances of a class the insert binding is called with
InstancesOf(cls) ==
  IF primary_key(cls).err # "none" THEN {}
  ELSE {Instance(cls, Entity_init(cls, <<>>, kw).pv) : kw \in FullKwargs(cols(cls), 1)}

----------------------------------------------------------------------------
(* State *)

NoCall ==
  [op |-> "none", cls |-> "", args |-> <<>>, kwargs |-> {}, err |-> "none",
   col |-> "", pk |-> "", trace |-> <<>>, result |-> <<>>, exists |-> FALSE]

Init ==
  /\ obj = NoObj
  /\ last = NoCall
  /\ tables = {}
  /\ rows = [cls \in Classes |-> <<>>]
  /\ committed = [cls \in Classes |-> <<>>]
  /\ inTxn = FALSE
  /\ inserted = [cls \in Classes |-> <<>>]

\* cls(*args, **kwargs)
Construct(cls, args, kwargs) ==
  LET r == Entity_init(cls, args, kwargs) IN
    /\ obj' = IF r.err = "none" THEN Instance(cls, r.pv) ELSE NoObj
    /\ last' = [NoCall EXCEPT !.op = "construct", !.cls = cls, !.args = args,
                              !.kwargs = kwargs, !.err = r.err, !.col = r.col,
                              !.pk = primary_key(cls).pk]
    /\ UNCHANGED <<tables, rows, committed, inTxn, inserted>>

StoredRows == LET RECURSIVE Sum(_)
                  Sum(S) == IF S = {} THEN 0
                            ELSE LET c == CHOOSE c \in S : TRUE
                                 IN Len(rows[c]) + Sum(S \ {c})
              IN Sum(Classes)

\* a call of a method decorated with cls.insert()
Insert(cls, objects) ==
  /\ StoredRows + Len(objects) <= MaxRows
  /\ LET c == insert_wrapper(Conn, cls, objects)
         ran == Len(c.rows[cls]) - Len(rows[cls])
     IN /\ tables' = c.tables
        /\ rows' = c.rows
        /\ committed' = c.committed
        /\ inTxn' = c.inTxn
        /\ inserted' = [inserted EXCEPT ![cls] =
                          @ \o [i \in 1..ran |-> [o |-> objects[i], ok |-> c.err = "none"]]]
        /\ last' = [NoCall EXCEPT !.op = "insert", !.cls = cls, !.err = c.err,
                                  !.trace = c.trace]
  /\ UNCHANGED obj

\* a call of a method decorated with cls.query("SELECT * FROM {table}")
Query(cls) ==
  /\ LET c == query_wrapper(Conn, cls)
     IN /\ tables' = c.tables
        /\ rows' = c.rows
        /\ committed' = c.committed
        /\ inTxn' = c.inTxn
        /\ last' = [NoCall EXCEPT !.op = "query", !.cls = cls, !.err = c.err,
                                  !.trace = c.trace, !.result = fetchall(c, cls)]
  /\ UNCHANGED <<obj, inserted>>

\* Dao.check_table_exists(table_name)
CheckTableExists(table_name) ==
  /\ last' = [NoCall EXCEPT !.op = "check", !.cls = table_name,
                            !.exists = table_name \in tables]
  /\ UNCHANGED <<obj, tables, rows, committed, inTxn, inserted>>

\* the entity classes the Dao has bindings for
DaoClasses == {"Food", "Log", "NoKey"}

\* the argument lists an insert binding of each class is called with
Batches == [cls \in DaoClasses |-> SeqsUpTo(InstancesOf(cls), MaxBatch)]

\* the bindings of a Dao over one Database
Next ==
  \/ \E cls \in DaoClasses : \E objects \in Batches[cls] : Insert(cls, objects)
  \/ \E cls \in DaoClasses : Query(cls)
  \/ \E cls \in DaoClasses : CheckTableExists(cls)

Spec == Init /\ [][Next]_vars

\* the constructor calls of room.py's demonstration (Food with three
\* positional and two named arguments; Food with named arguments only), and
\* the call of a three-column entity with its values in declaration order
ExampleCalls ==
  {[cls |-> "Food", args |-> <<DateTimeVal(1), StrVal(Apple), IntVal(1)>>,
    kwargs |-> {<<"calories", FloatVal(52)>>, <<"importance", FloatVal(52)>>}],
   [cls |-> "Food", args |-> <<>>,
    kwargs |-> {<<"uid", IntVal(1)>>, <<"name", StrVal(Apple)>>,
                <<"calories", FloatVal(52)>>, <<"last_log", DateTimeVal(1)>>,
                <<"importance", FloatVal(52)>>}],
   [cls |-> "Snack", args |-> <<IntVal(1), StrVal(Apple), FloatVal(52)>>,
    kwargs |-> {}]}

\* the state before a constructor call is made
Pending(cls, args, kwargs) ==
  /\ last = [NoCall EXCEPT !.op = "call", !.cls = cls, !.args = args,
                           !.kwargs = kwargs]
  /\ obj = NoObj
  /\ tables = {}
  /\ rows = [c \in Classes |-> <<>>]
  /\ committed = [c \in Classes |-> <<>>]
  /\ inTxn = FALSE
  /\ inserted = [c \in Classes |-> <<>>]

\* a constructor call about to be made: any class with at most MaxArgs
\* positional and MaxKw named arguments, or one of the example calls
InitEntity ==
  \/ \E cls \in Classes : \E args \in SeqsUpTo(CtorValues, MaxArgs) :
       \E kwargs \in KwDicts(cls) : Pending(cls, args, kwargs)
  \/ \E call \in ExampleCalls : Pending(call.cls, call.args, call.kwargs)

\* the constructor of an entity class, run on the pending call
NextEntity ==
  /\ last.op = "call"
  /\ Construct(last.cls, last.args, last.kwargs)

SpecEntity == InitEntity /\ [][NextEntity]_vars

----------------------------------------------------------------------------
(* Properties *)

Constructed == last.op = "construct" /\ last.err = "none"

\* C1: after one instance is inserted into an empty table, a query of all
\* rows returns exactly one row, equal position by position to the
\* instance's value tuple.
C1_RoundTrip ==
  (/\ last.op = "query"
   /\ Len(inserted[last.cls]) = 1
   /\ inserted[last.cls][1].ok)
    => /\ Len(last.result) = 1
       /\ TupleEq(last.result[1], values(inserted[last.cls][1].o))

\* C2: the schema lists the columns in the order the class declares them,
\* the CREATE column list and the value tuple follow that order, and an
\* entity declared as uid, name, calories is constructed from its values in
\* that order, giving them back as its value tuple.
C2_DeclarationOrder ==
  /\ last.op = "construct" =>
       /\ ColNames(cols(last.cls)) = ColNames(DeclaredCols(last.cls))
       /\ [i \in 1..Len(cols(last.cls)) |-> create_table_columns(last.cls)[i][1]]
            = ColNames(DeclaredCols(last.cls))
  /\ Constructed => ColNames(obj.pv) = ColNames(DeclaredCols(obj.cls))
  /\ (/\ last.op = "construct"
      /\ last.cls = "Snack"
      /\ last.args = <<IntVal(1), StrVal(Apple), FloatVal(52)>>
      /\ last.kwargs = {})
       => /\ last.err = "none"
          /\ values(obj) = last.args

\* the columns a call's named arguments satisfy, the positional argument a
\* column is left with, and whether a column can be satisfied at all
C3_Named(i) ==
  LET c == cols(last.cls)[i] IN
    \E p \in last.kwargs : p[1] = c.name /\ p[2].t = c.t

C3_Before(i) == Cardinality({j \in 1..(i - 1) : ~C3_Named(j)})

C3_Positional(i) ==
  /\ Len(last.args) > C3_Before(i)
  /\ last.args[C3_Before(i) + 1].t = cols(last.cls)[i].t

C3_Expected(i) ==
  IF C3_Named(i)
    THEN (CHOOSE p \in last.kwargs : p[1] = cols(last.cls)[i].name)[2]
  ELSE last.args[C3_Before(i) + 1]

C3_Unsatisfied ==
  {i \in 1..Len(cols(last.cls)) : ~C3_Named(i) /\ ~C3_Positional(i)}

\* C3: construction of an entity with a valid schema takes, for each column
\* in schema order, the named argument of that name when it has the column's
\* type, otherwise the next unconsumed positional argument when it has that
\* type; positional arguments are consumed left to right, once each; if a
\* column gets neither, the call fails naming the first such column and
\* yields no instance; otherwise the instance holds one value of the
\* declared type per column and surplus arguments are ignored.
C3_Construction ==
  (last.op = "construct" /\ last.err \notin {"NoPrimaryKey", "MultiplePrimaryKeys"})
    => LET cs == cols(last.cls) IN
       IF C3_Unsatisfied = {}
         THEN /\ last.err = "none"
              /\ obj.cls = last.cls
              /\ Len(obj.pv) = Len(cs)
              /\ \A i \in 1..Len(cs) :
                   /\ obj.pv[i].name = cs[i].name
                   /\ obj.pv[i].val = C3_Expected(i)
                   /\ obj.pv[i].val.t = cs[i].t
       ELSE /\ last.err = "MissingOrMistypedField"
            /\ last.col = cs[CHOOSE i \in C3_Unsatisfied :
                               \A j \in C3_Unsatisfied : i <= j].name
            /\ obj = NoObj

\* a call that mixes positional and named arguments and succeeds
C3_Witness ==
  /\ Constructed
  /\ last.cls = "Snack"
  /\ Len(last.args) = 2
  /\ last.kwargs # {}

\* C4: validation has three outcomes: no primary-key column fails with
\* NoPrimaryKey, two or more fail with MultiplePrimaryKeys, exactly one
\* succeeds and yields that column's name.
C4_Validation ==
  last.op = "construct" =>
    LET cs == cols(last.cls)
        marked == {i \in 1..Len(cs) : cs[i].kind = "pk"}
    IN /\ Cardinality(marked) = 0 => last.err = "NoPrimaryKey"
       /\ Cardinality(marked) >= 2 => last.err = "MultiplePrimaryKeys"
       /\ Cardinality(marked) = 1 =>
            /\ last.err \notin {"NoPrimaryKey", "MultiplePrimaryKeys"}
            /\ \A i \in marked : last.pk = cs[i].name

C4_Witness == last.op = "construct" /\ last.err = "MultiplePrimaryKeys"

\* C5: an entity class whose schema has no or several primary keys is
\* rejected before an instance of it exists and before a bound operation
\* creates its table or executes a statement.
C5_ValidatedBeforeUse ==
  \A cls \in Classes :
    primary_key(cls).err # "none" =>
      /\ obj.cls # cls
      /\ cls \notin tables
      /\ ~(last.cls = cls /\ last.op \in {"query", "insert"}
             /\ "execute" \in SeqRange(last.trace))

\* C6: an insert call that succeeds has all its rows committed; no row of a
\* batch that failed part-way is ever committed or returned by a query.
C6_AllOrNothing ==
  /\ (last.op = "insert" /\ last.err = "none") =>
       committed[last.cls] = rows[last.cls]
  /\ \A cls \in Classes : \A i \in 1..Len(inserted[cls]) :
       ~inserted[cls][i].ok =>
         /\ i > Len(committed[cls])
         /\ ~(last.op = "query" /\ last.cls = cls /\ i <= Len(last.result))

Occurrences(sq, x) == Cardinality({i \in 1..Len(sq) : sq[i] = x})

\* C7: the UPDATE statement binds every schema column once in its SET
\* clause, so it has as many parameters as the schema has columns, and its
\* WHERE clause holds the identity value as a literal and no parameter.
C7_UpdateShape ==
  Constructed =>
    LET cs == cols(obj.cls) IN
      /\ \A i \in 1..Len(cs) : Occurrences(update_set_clause(obj), cs[i].name) = 1
      /\ ParamCount(update_set_clause(obj)) = Len(cs)
      /\ ParamCount(update_where_clause(obj)) = 0
      /\ ParamCount(update_sql(obj)) = Len(cs)

\* C8: an instance's value tuple has one entry per schema column and per
\* placeholder of the INSERT statement, and its i-th entry is the value held
\* for the i-th schema column.
C8_InsertParameters ==
  Constructed =>
    LET cs == cols(obj.cls) IN
      /\ Len(values(obj)) = Len(cs)
      /\ Len(values(obj)) = ParamCount(insert_sql(obj.cls))
      /\ \A i \in 1..Len(cs) : values(obj)[i] = PropertyValue(obj, cs[i].name)

C8_Witness == Constructed /\ obj.cls = "Snack" /\ Len(values(obj)) = 3

Positions(sq, x) == {i \in 1..Len(sq) : sq[i] = x}

At(sq, x) == CHOOSE i \in Positions(sq, x) : TRUE

Returned == last.op \in {"query", "insert"} /\ last.err = "none"

\* the steps of a call that returned, each once and in order
C9_Order ==
  LET tr == last.trace IN
    /\ \A e \in {"create", "build", "execute", "return"} :
         Cardinality(Positions(tr, e)) = 1
    /\ At(tr, "create") < At(tr, "build")
    /\ At(tr, "build") < At(tr, "execute")
    /\ At(tr, "execute") < At(tr, "return")
    /\ At(tr, "return") = Len(tr)
    /\ last.op = "query" => Len(last.result) = Len(rows[last.cls])

\* C9 as stated: a call goes through ensure-table, build, execute, commit
\* (insert only), return in that order, and a query call issues no commit.
C9_CommitOnInsertOnly ==
  Returned =>
    /\ C9_Order
    /\ last.op = "insert" =>
         At(last.trace, "execute") + 1 \in Positions(last.trace, "commit")
    /\ last.op = "query" => Positions(last.trace, "commit") = {}

\* C9 as amended: the ensure-table step itself commits on both paths, right
\* after the CREATE and before the statement is built; after executing, the
\* insert path commits once more before it returns and the query path does
\* not commit.
C9_CommitAfterEnsure ==
  Returned =>
    /\ C9_Order
    /\ At(last.trace, "create") + 1 < At(last.trace, "build")
    /\ Positions(last.trace, "commit") =
         {At(last.trace, "create") + 1}
           \cup (IF last.op = "insert" THEN {At(last.trace, "execute") + 1} ELSE {})

C9_Witness == last.op = "query" /\ last.err = "none" /\ Len(last.result) > 0

IsPrefix(x, y) == Len(x) <= Len(y) /\ \A i \in 1..Len(x) : x[i] = y[i]

\* what holds of the tables after every call
C10_State ==
  /\ last.op \in {"query", "insert"} => last.cls \in tables
  /\ last.op = "check" => last.exists = (last.cls \in tables)
  /\ \A cls \in tables :
       /\ create_table(Conn, cls).tables = tables
       /\ create_table(Conn, cls).rows = rows

\* C10: a table comes to exist only through a bound operation on its entity,
\* exists after every bound operation on it (check_table_exists then says
\* so), is left as it is with its rows by a further ensure, and is never
\* dropped; check_table_exists changes nothing.
C10_TableExistence ==
  [][/\ C10_State'
     /\ tables \subseteq tables'
     /\ \A cls \in tables : IsPrefix(rows[cls], rows'[cls])
     /\ \A cls \in tables' \ tables :
          last'.cls = cls /\ last'.op \in {"query", "insert"}
     /\ last'.op = "check" => UNCHANGED <<tables, rows, committed, inTxn>>]_vars

C10_Witness ==
  /\ last.op = "check"
  /\ last.exists
  /\ rows[last.cls] # <<>>
  /\ \E cls \in DaoClasses : cls \notin tables

====
